---- MODULE Spec2Model ----
(***************************************************************************)
(* Model of src/quadtree_compression.cpp: the Quadrant / QuadTree classes. *)
(* A tree is built over a small source image, rendered with create_image   *)
(* and torn down by ~QuadTree.  Pointers to Quadrants are modelled as the  *)
(* path of child indices from the root; NullPtr is nullptr.                *)
(***************************************************************************)
EXTENDS Integers, Sequences, FiniteSets, TLC

\* ------------------------------------------------------------------ bounds
\* The source sets MAX_DEPTH to 8 (line 5).  The model uses a smaller
\* ceiling so that the depth cut-off of build is reached on small images.
MAX_DEPTH == 2
DETAIL_THRESHOLD == 13
\* largest width / height of a source image
MaxDim == 4
\* largest number of regions whose detail is at or above the threshold
MaxHot == 3
\* largest depth argument handed to create_image (the smallest is -1)
MaxRenderDepth == 3

\* detail values a region may get: just below and at the threshold
Details == {DETAIL_THRESHOLD - 1, DETAIL_THRESHOLD}
Patterns == {"gradient", "blocks"}

NullPtr == <<-1>>
RootPtr == << >>
Black == <<0, 0, 0>>

\* ----------------------------------------------------------------- images
\* cv::Rect
Rect(x, y, w, h) == [x |-> x, y |-> y, width |-> w, height |-> h]

\* the pixels of an image covered by a rectangle
PixelsOf(bbox) ==
    {<<px, py>> : px \in bbox.x .. (bbox.x + bbox.width - 1),
                  py \in bbox.y .. (bbox.y + bbox.height - 1)}

\* a source image (three 8-bit channels per pixel)
SourceImage(pattern, cols, rows) ==
    [p \in PixelsOf(Rect(0, 0, cols, rows)) |->
        IF pattern = "gradient"
        THEN <<10 + 16 * p[1] + 3 * p[2], 20 + 5 * p[1] + 16 * p[2], 30 + 7 * p[1] + 11 * p[2]>>
        ELSE IF p[1] < cols \div 2 /\ p[2] < rows \div 2
             THEN <<200, 40, 90>>
             ELSE <<20, 120, 61>>]

RECURSIVE SumChannel(_, _, _)
SumChannel(image, S, ch) ==
    IF S = {} THEN 0
    ELSE LET p == CHOOSE q \in S : TRUE
         IN image[p][ch] + SumChannel(image, S \ {p}, ch)

\* average_color: cv::mean per channel, truncated by the (uchar) casts;
\* cv::mean of an empty matrix is zero
average_color(image, bbox) ==
    LET S == PixelsOf(bbox)
        n == Cardinality(S)
    IN IF n = 0 THEN Black
       ELSE <<SumChannel(image, S, 1) \div n,
              SumChannel(image, S, 2) \div n,
              SumChannel(image, S, 3) \div n>>

\* --------------------------------------------------------------- Quadrant
\* Quadrant::Quadrant.  The detail of the region is an input: get_detail
\* reads a float histogram through an int pointer and multiplies the bin
\* index by it in int arithmetic, so its value is not determined by the
\* pixels alone.
Quadrant(image, bbox, depth, detail) ==
    [bbox |-> bbox, depth |-> depth, is_leaf |-> FALSE,
     children |-> <<NullPtr, NullPtr, NullPtr, NullPtr>>,
     color |-> average_color(image, bbox), detail |-> detail]

\* a child width that rounds the half up instead of down
ChildRectsRoundUp(bbox) ==
    LET middle_x == bbox.x + bbox.width \div 2
        middle_y == bbox.y + bbox.height \div 2
        w == (bbox.width + 1) \div 2
        h == (bbox.height + 1) \div 2
    IN << Rect(bbox.x, bbox.y, w, h), Rect(middle_x, bbox.y, w, h),
          Rect(bbox.x, middle_y, w, h), Rect(middle_x, middle_y, w, h) >>

\* the four rectangles split_region hands to the children
ChildRects(bbox) ==
    LET middle_x == bbox.x + bbox.width \div 2
        middle_y == bbox.y + bbox.height \div 2
    IN << Rect(bbox.x, bbox.y, bbox.width \div 2, bbox.height \div 2),
          Rect(middle_x, bbox.y, bbox.width \div 2, bbox.height \div 2),
          Rect(bbox.x, middle_y, bbox.width \div 2, bbox.height \div 2),
          Rect(middle_x, middle_y, bbox.width \div 2, bbox.height \div 2) >>

\* the pointer stored in children[i-1] of the node at ptr
ChildPtr(ptr, i) == Append(ptr, i - 1)

\* Quadrant::split_region on the node at ptr, the details of the four new
\* regions being ds
split_region(nds, image, ptr, ds) ==
    LET quad == nds[ptr]
        rects == ChildRects(quad.bbox)
        kids == {ChildPtr(ptr, i) : i \in 1..4}
    IN [p \in DOMAIN nds \cup kids |->
          IF p = ptr
          THEN [quad EXCEPT !.children = [i \in 1..4 |-> ChildPtr(ptr, i)]]
          ELSE IF p \in kids
               THEN Quadrant(image, rects[p[Len(p)] + 1], quad.depth + 1, ds[p[Len(p)] + 1])
               ELSE nds[p]]

\* --------------------------------------------------------------- QuadTree
\* stop condition with a non-strict detail comparison
StopSplittingLooseDetail(quad) ==
    quad.depth >= MAX_DEPTH \/ quad.detail <= DETAIL_THRESHOLD

\* the condition of build under which the region is not split
StopSplitting(quad) ==
    quad.depth >= MAX_DEPTH \/ quad.detail < DETAIL_THRESHOLD

\* a max_depth update that keeps the last leaf's depth
NewMaxDepthLast(quad, md) == quad.depth

\* the max_depth update of build's stop branch
NewMaxDepth(quad, md) == IF quad.depth > md THEN quad.depth ELSE md

VARIABLES
    src,         \* the source image handed to the constructor and to build
    nodes,       \* the heap: every Quadrant allocated, by pointer
    max_depth,   \* QuadTree::max_depth
    stack,       \* the frames of the running build calls, innermost last
    phase,       \* "constructed", "building", "built", "aborted", "crashed", "destroyed"
    emptyStats,  \* the statistics functions were called on an empty region
    rendered,    \* what create_image produced, while it is the last call made
    teardown     \* what ~QuadTree did

vars == <<src, nodes, max_depth, stack, phase, emptyStats, rendered, teardown>>

HotCount(nds) == Cardinality({p \in DOMAIN nds : nds[p].detail >= DETAIL_THRESHOLD})

NoImage == [p \in {} |-> Black]
NoRender == [called |-> FALSE, built |-> FALSE, depth |-> 0, show_lines |-> FALSE,
             outcome |-> "none", nullDeref |-> FALSE, image |-> NoImage]
NoTeardown == [outcome |-> "none", nullDeref |-> FALSE, deleted |-> << >>]

\* QuadTree::QuadTree over an image of cols x rows pixels
Init ==
    \E cols \in 1..MaxDim, rows \in 1..MaxDim, pattern \in Patterns, d \in Details :
        /\ src = SourceImage(pattern, cols, rows)
        /\ nodes = [p \in {RootPtr} |->
                      Quadrant(SourceImage(pattern, cols, rows), Rect(0, 0, cols, rows), 0, d)]
        /\ max_depth = 0
        /\ stack = << >>
        /\ phase = "constructed"
        /\ emptyStats = FALSE
        /\ rendered = NoRender
        /\ teardown = NoTeardown

\* ------------------------------------------------------------------ build
Top == stack[Len(stack)]
Pop == SubSeq(stack, 1, Len(stack) - 1)

\* the caller invokes build(root, image)
BuildCall ==
    /\ phase = "constructed"
    /\ phase' = "building"
    /\ stack' = << [quad |-> RootPtr, i |-> 0] >>
    /\ rendered' = NoRender
    /\ UNCHANGED <<src, nodes, max_depth, emptyStats, teardown>>

\* build, stop branch: record the depth, mark the leaf, return
BuildStop ==
    /\ phase = "building"
    /\ Top.i = 0
    /\ StopSplitting(nodes[Top.quad])
    /\ max_depth' = NewMaxDepth(nodes[Top.quad], max_depth)
    /\ nodes' = [nodes EXCEPT ![Top.quad].is_leaf = TRUE]
    /\ stack' = Pop
    /\ phase' = IF Len(stack) = 1 THEN "built" ELSE "building"
    /\ UNCHANGED <<src, emptyStats, rendered, teardown>>

ChildrenEmpty(quad) == quad.bbox.width \div 2 = 0 \/ quad.bbox.height \div 2 = 0

\* build, else branch: split_region constructs the four children
BuildSplit ==
    /\ phase = "building"
    /\ Top.i = 0
    /\ ~StopSplitting(nodes[Top.quad])
    /\ \E ds \in [1..4 -> Details] :
          /\ HotCount(nodes) + Cardinality({i \in 1..4 : ds[i] >= DETAIL_THRESHOLD}) <= MaxHot
          /\ nodes' = split_region(nodes, src, Top.quad, ds)
    /\ emptyStats' = (emptyStats \/ ChildrenEmpty(nodes[Top.quad]))
    /\ stack' = [stack EXCEPT ![Len(stack)].i = 1]
    /\ UNCHANGED <<src, max_depth, phase, rendered, teardown>>

\* build, else branch on a region whose halves are empty: get_detail indexes
\* the empty vector cv::split leaves behind; the process may stop there
BuildSplitAbort ==
    /\ phase = "building"
    /\ Top.i = 0
    /\ ~StopSplitting(nodes[Top.quad])
    /\ ChildrenEmpty(nodes[Top.quad])
    /\ emptyStats' = TRUE
    /\ phase' = "aborted"
    /\ UNCHANGED <<src, nodes, max_depth, stack, rendered, teardown>>

\* build, loop body: build(child, image)
BuildRecurse ==
    /\ phase = "building"
    /\ Top.i \in 1..4
    /\ stack' = Append([stack EXCEPT ![Len(stack)].i = Top.i + 1],
                       [quad |-> nodes[Top.quad].children[Top.i], i |-> 0])
    /\ UNCHANGED <<src, nodes, max_depth, phase, emptyStats, rendered, teardown>>

\* build, the loop over the children is over: return
BuildReturn ==
    /\ phase = "building"
    /\ Top.i = 5
    /\ stack' = Pop
    /\ phase' = IF Len(stack) = 1 THEN "built" ELSE "building"
    /\ UNCHANGED <<src, nodes, max_depth, emptyStats, rendered, teardown>>

\* ----------------------------------------------------------- create_image
\* a bool promoted to int, as in the comparison quad->is_leaf == depth
BoolToInt(b) == IF b THEN 1 ELSE 0

\* a block condition that looks at the leaf flag only
FillsBlockLeafOnly(quad, depth) == quad.is_leaf

\* a block condition whose comparison is off by one
FillsBlockOffByOne(quad, depth) ==
    BoolToInt(quad.is_leaf) = depth - 1 \/ quad.is_leaf

\* the condition of draw_quadrants under which the node is painted
FillsBlock(quad, depth) ==
    BoolToInt(quad.is_leaf) = depth \/ quad.is_leaf

\* Mat::zeros(height, width, CV_8UC3)
Zeros(height, width) == [p \in PixelsOf(Rect(0, 0, width, height)) |-> Black]

\* cv::rectangle(image, bbox, color, FILLED)
FillRect(image, bbox, color) ==
    [p \in DOMAIN image |-> IF p \in PixelsOf(bbox) THEN color ELSE image[p]]

\* cv::rectangle(image, bbox, color, 1): the one-pixel outline of bbox
OutlineOf(bbox) ==
    {p \in PixelsOf(bbox) :
        \/ p[1] = bbox.x \/ p[1] = bbox.x + bbox.width - 1
        \/ p[2] = bbox.y \/ p[2] = bbox.y + bbox.height - 1}

DrawRect(image, bbox, color) ==
    [p \in DOMAIN image |-> IF p \in OutlineOf(bbox) THEN color ELSE image[p]]

RECURSIVE draw_quadrants(_, _, _, _, _)
RECURSIVE DrawChildren(_, _, _, _, _, _)

\* QuadTree::draw_quadrants; the result is the image and whether a null
\* Quadrant pointer was dereferenced on the way
draw_quadrants(nds, acc, ptr, depth, show_lines) ==
    IF ptr = NullPtr
    THEN [image |-> acc.image, nullDeref |-> TRUE]
    ELSE IF FillsBlock(nds[ptr], depth)
         THEN LET filled == FillRect(acc.image, nds[ptr].bbox, nds[ptr].color)
              IN [image |-> IF show_lines THEN DrawRect(filled, nds[ptr].bbox, Black)
                                          ELSE filled,
                  nullDeref |-> acc.nullDeref]
         ELSE DrawChildren(nds, acc, ptr, 1, depth, show_lines)

\* the loop of draw_quadrants over quad->children, from slot i on: the call
\* is made for the slots that hold nullptr
DrawChildren(nds, acc, ptr, i, depth, show_lines) ==
    IF i > 4 THEN acc
    ELSE LET child == nds[ptr].children[i]
             next == IF child = NullPtr
                     THEN draw_quadrants(nds, acc, child, depth, show_lines)
                     ELSE acc
         IN DrawChildren(nds, next, ptr, i + 1, depth, show_lines)

\* QuadTree::create_image, up to the return
create_image(nds, depth, show_lines) ==
    draw_quadrants(nds,
                   [image |-> Zeros(nds[RootPtr].bbox.height, nds[RootPtr].bbox.width),
                    nullDeref |-> FALSE],
                   RootPtr, depth, show_lines)

RenderDepths == (-1) .. MaxRenderDepth

\* create_image(depth, show_lines) runs to its return statement
CreateImage ==
    /\ phase \in {"constructed", "built"}
    /\ \E depth \in RenderDepths, show_lines \in BOOLEAN :
          LET r == create_image(nodes, depth, show_lines)
          IN /\ ~r.nullDeref
             /\ rendered' = [called |-> TRUE, built |-> (phase = "built"), depth |-> depth,
                             show_lines |-> show_lines, outcome |-> "returned",
                             nullDeref |-> FALSE, image |-> r.image]
    /\ UNCHANGED <<src, nodes, max_depth, stack, phase, emptyStats, teardown>>

\* create_image(depth, show_lines) reads through a null Quadrant pointer:
\* the process stops there, or the read goes through and the call returns
CreateImageNullDeref ==
    /\ phase \in {"constructed", "built"}
    /\ \E depth \in RenderDepths, show_lines \in BOOLEAN, outcome \in {"crashed", "returned"} :
          LET r == create_image(nodes, depth, show_lines)
          IN /\ r.nullDeref
             /\ rendered' = [called |-> TRUE, built |-> (phase = "built"), depth |-> depth,
                             show_lines |-> show_lines, outcome |-> outcome,
                             nullDeref |-> TRUE,
                             image |-> IF outcome = "returned" THEN r.image ELSE NoImage]
             /\ phase' = IF outcome = "crashed" THEN "crashed" ELSE phase
    /\ UNCHANGED <<src, nodes, max_depth, stack, emptyStats, teardown>>

\* -------------------------------------------------------------- ~QuadTree
\* the operand of a delete expression: a Quadrant, or a slot of a children vector
NodeOperand(ptr) == [kind |-> "node", owner |-> ptr, index |-> 0]
SlotOperand(ptr, i) == [kind |-> "slot", owner |-> ptr, index |-> i - 1]

RECURSIVE free_quadtree(_, _, _)
RECURSIVE FreeChildren(_, _, _, _)

\* QuadTree::free_quadtree; the result is the operands handed to delete, in
\* order, and whether a null Quadrant pointer was dereferenced
free_quadtree(nds, acc, ptr) ==
    IF ptr = NullPtr
    THEN [deleted |-> acc.deleted, nullDeref |-> TRUE]
    ELSE FreeChildren(nds, acc, ptr, 1)

\* the loop of free_quadtree over quad->children, from slot i on: the body
\* runs for the slots that hold nullptr and deletes the address of the slot
FreeChildren(nds, acc, ptr, i) ==
    IF i > 4 THEN acc
    ELSE LET child == nds[ptr].children[i]
             next == IF child = NullPtr
                     THEN LET r == free_quadtree(nds, acc, child)
                          IN [deleted |-> Append(r.deleted, SlotOperand(ptr, i)),
                              nullDeref |-> r.nullDeref]
                     ELSE acc
         IN FreeChildren(nds, next, ptr, i + 1)

Destructor(nds) == free_quadtree(nds, [deleted |-> << >>, nullDeref |-> FALSE], RootPtr)

\* ~QuadTree runs to its end
Destroy ==
    /\ phase \in {"constructed", "built"}
    /\ ~Destructor(nodes).nullDeref
    /\ teardown' = [outcome |-> "returned", nullDeref |-> FALSE,
                    deleted |-> Destructor(nodes).deleted]
    /\ phase' = "destroyed"
    /\ rendered' = NoRender
    /\ UNCHANGED <<src, nodes, max_depth, stack, emptyStats>>

\* ~QuadTree reads through a null Quadrant pointer: the process stops there,
\* or the read goes through and the destructor carries on
DestroyNullDeref ==
    /\ phase \in {"constructed", "built"}
    /\ Destructor(nodes).nullDeref
    /\ \E outcome \in {"crashed", "returned"} :
          /\ teardown' = [outcome |-> outcome, nullDeref |-> TRUE,
                          deleted |-> IF outcome = "returned"
                                      THEN Destructor(nodes).deleted ELSE << >>]
          /\ phase' = IF outcome = "crashed" THEN "crashed" ELSE "destroyed"
    /\ rendered' = NoRender
    /\ UNCHANGED <<src, nodes, max_depth, stack, emptyStats>>

Next ==
    \/ BuildCall
    \/ BuildStop
    \/ BuildSplit
    \/ BuildSplitAbort
    \/ BuildRecurse
    \/ BuildReturn
    \/ CreateImage
    \/ CreateImageNullDeref
    \/ Destroy
    \/ DestroyNullDeref

Spec == Init /\ [][Next]_vars

\* ================================================================ claims
Root == nodes[RootPtr]
IsSplit(quad) == \A i \in 1..4 : quad.children[i] # NullPtr
Leaves == {p \in DOMAIN nodes : nodes[p].is_leaf}
MaxOf(S) == CHOOSE m \in S : \A n \in S : n <= m
RenderedOnBuilt == rendered.called /\ rendered.built

RECURSIVE BlockRender(_, _, _, _)
\* the image in which a node is painted as a block when it is a leaf or lies
\* at the target depth, and its four children are visited otherwise
BlockRender(image, ptr, depth, show_lines) ==
    LET quad == nodes[ptr]
        Visit[i \in 0..4] ==
            IF i = 0 THEN image
            ELSE BlockRender(Visit[i - 1], quad.children[i], depth, show_lines)
    IN IF quad.is_leaf \/ quad.depth = depth
       THEN LET filled == FillRect(image, quad.bbox, quad.color)
            IN IF show_lines THEN DrawRect(filled, quad.bbox, Black) ELSE filled
       ELSE Visit[4]

\* C1: on a built tree, create_image(targetDepth >= 0) paints a node as a
\* block exactly when it is a leaf or its depth equals targetDepth, and
\* visits all four children of every other node.
C1_BlockAtLeafOrTargetDepth ==
    (RenderedOnBuilt /\ rendered.depth >= 0) =>
        /\ rendered.outcome = "returned"
        /\ rendered.image = BlockRender(Zeros(Root.bbox.height, Root.bbox.width),
                                        RootPtr, rendered.depth, rendered.show_lines)

DeleteCount(operand) ==
    Cardinality({k \in 1..Len(teardown.deleted) : teardown.deleted[k] = operand})

\* C2: once ~QuadTree has run, every Quadrant of the heap, the root included,
\* has been released exactly once, nothing else was released and no null
\* pointer was dereferenced.
C2_EveryNodeReleasedOnce ==
    (teardown.outcome # "none") =>
        /\ teardown.outcome = "returned"
        /\ ~teardown.nullDeref
        /\ \A p \in DOMAIN nodes : DeleteCount(NodeOperand(p)) = 1
        /\ \A k \in 1..Len(teardown.deleted) : teardown.deleted[k].kind = "node"

\* the column and the row of a box that integer halving leaves to no child
Remainder(bbox) ==
    {p \in PixelsOf(bbox) :
        \/ (bbox.width % 2 = 1 /\ p[1] = bbox.x + bbox.width - 1)
        \/ (bbox.height % 2 = 1 /\ p[2] = bbox.y + bbox.height - 1)}

ChildBoxesOK(quad) ==
    LET box(i) == nodes[quad.children[i]].bbox
    IN /\ \A i \in 1..4 :
            /\ box(i).width = quad.bbox.width \div 2
            /\ box(i).height = quad.bbox.height \div 2
            /\ box(i).x >= quad.bbox.x
            /\ box(i).y >= quad.bbox.y
            /\ box(i).x + box(i).width <= quad.bbox.x + quad.bbox.width
            /\ box(i).y + box(i).height <= quad.bbox.y + quad.bbox.height
       /\ \A i, j \in 1..4 : i # j => PixelsOf(box(i)) \cap PixelsOf(box(j)) = {}
       /\ PixelsOf(quad.bbox) \ UNION {PixelsOf(box(i)) : i \in 1..4} = Remainder(quad.bbox)

\* C3: after build, the four children's boxes of every non-leaf node lie
\* inside the parent's box, do not overlap, have the parent's width and
\* height halved and rounded down, and cover the parent's box except for
\* the last column of an odd width and the last row of an odd height.
C3_ChildrenPartitionParent ==
    (phase = "built") =>
        \A p \in DOMAIN nodes : ~nodes[p].is_leaf => ChildBoxesOK(nodes[p])

C3_Witness ==
    /\ phase = "built"
    /\ ~Root.is_leaf
    /\ Root.bbox.width = 3
    /\ Root.bbox.height = 4
    /\ \E p \in DOMAIN nodes : nodes[p].depth = 1 /\ ~nodes[p].is_leaf

\* C4: no Quadrant is ever constructed over a region of zero width or zero
\* height, and the statistics functions never run on an empty region.
C4_NoEmptyRegion ==
    /\ ~emptyStats
    /\ \A p \in DOMAIN nodes : nodes[p].bbox.width > 0 /\ nodes[p].bbox.height > 0

\* C5: create_image with a negative depth, or on a tree that was never
\* built, ends in an explicit error: it returns no image and dereferences no
\* null pointer.
C5_FailFast ==
    (rendered.called /\ (rendered.depth < 0 \/ ~rendered.built)) =>
        /\ rendered.outcome = "error"
        /\ ~rendered.nullDeref

FullyBuilt(quad) ==
    \/ quad.is_leaf
    \/ \A i \in 1..4 : quad.children[i] \in DOMAIN nodes

\* C6: a build that was started never stops anywhere but at its return, and
\* when it has returned every node is a leaf or has four built children and
\* no node lies deeper than MAX_DEPTH.
C6_BuildReturns ==
    /\ phase # "aborted"
    /\ (phase = "built") =>
          \A p \in DOMAIN nodes : FullyBuilt(nodes[p]) /\ nodes[p].depth <= MAX_DEPTH

\* C7: on a built tree, create_image(d, show_lines) with d >= max_depth
\* returns, and returns the image create_image(max_depth, show_lines) returns.
C7_DepthCap ==
    (RenderedOnBuilt /\ rendered.depth >= max_depth) =>
        /\ rendered.outcome = "returned"
        /\ ~rendered.nullDeref
        /\ rendered.image = create_image(nodes, max_depth, rendered.show_lines).image

C7_Witness ==
    /\ RenderedOnBuilt
    /\ rendered.outcome = "returned"
    /\ max_depth >= 1
    /\ rendered.depth > max_depth
    /\ rendered.show_lines

\* C8: on a built tree, create_image(0, false) returns an image of the root
\* box's dimensions whose every pixel has the root's stored color.
C8_DepthZeroIsRootColor ==
    (RenderedOnBuilt /\ rendered.depth = 0 /\ ~rendered.show_lines) =>
        /\ rendered.outcome = "returned"
        /\ DOMAIN rendered.image = PixelsOf(Rect(0, 0, Root.bbox.width, Root.bbox.height))
        /\ \A p \in DOMAIN rendered.image : rendered.image[p] = Root.color

C8_Witness ==
    /\ RenderedOnBuilt
    /\ rendered.depth = 0
    /\ ~rendered.show_lines
    /\ rendered.outcome = "returned"
    /\ ~Root.is_leaf
    /\ Root.color # Black

\* C9: max_depth never exceeds MAX_DEPTH, and when build has returned it is
\* the largest depth of a leaf of the tree.
C9_MaxDepthIsDeepestLeaf ==
    /\ max_depth <= MAX_DEPTH
    /\ (phase = "built") => max_depth = MaxOf({nodes[p].depth : p \in Leaves})

C9_Witness ==
    /\ phase = "built"
    /\ max_depth = MAX_DEPTH
    /\ \E p \in Leaves : nodes[p].depth = 1
    /\ nodes[<<3>>].is_leaf

\* C10: when build has returned, a node is a leaf exactly when its depth has
\* reached MAX_DEPTH or its detail is below DETAIL_THRESHOLD; a leaf has no
\* child, and every other node has four children one level deeper.
C10_LeafIffStopCondition ==
    (phase = "built") =>
        \A p \in DOMAIN nodes :
            LET quad == nodes[p]
            IN /\ quad.is_leaf <=> (quad.depth >= MAX_DEPTH \/ quad.detail < DETAIL_THRESHOLD)
               /\ quad.is_leaf => \A i \in 1..4 : quad.children[i] = NullPtr
               /\ ~quad.is_leaf =>
                    \A i \in 1..4 :
                        /\ quad.children[i] # NullPtr
                        /\ quad.children[i] \in DOMAIN nodes
                        /\ nodes[quad.children[i]].depth = quad.depth + 1

C10_Witness ==
    /\ phase = "built"
    /\ \E p \in DOMAIN nodes :
          /\ nodes[p].depth = MAX_DEPTH
          /\ nodes[p].detail >= DETAIL_THRESHOLD
          /\ nodes[p].is_leaf
    /\ \E p \in DOMAIN nodes :
          /\ nodes[p].depth = 1
          /\ nodes[p].detail < DETAIL_THRESHOLD
          /\ nodes[p].is_leaf
====
